---- MODULE Spec2Model ----
(***************************************************************************)
(* Model of the OpenCGA loader: resources/home/dnanexus/                   *)
(* opencga_upload_and_index.py (the coordinator, __main__) and             *)
(* opencga_functions.py (probe and stage executors).                       *)
(*                                                                         *)
(* The statements of __main__ are modelled in the order the file holds     *)
(* them, the repeated blocks (annotation at 334-339 and 341-346, secondary *)
(* annotation index at 358 and 360) included, up to the call of line 448,  *)
(* which raises.  Spec and SpecSerial are the runs on VCFs that come       *)
(* without individuals, samples and clinical data, for which the loops of  *)
(* lines 371-456 do nothing; SpecMetadata is the run on one VCF that may   *)
(* come with them.                                                         *)
(* SpecIndex is one file up to the return of index_file, with every job    *)
(* status name and every outcome of the attribute check; SpecTermination   *)
(* is Spec under weak fairness of the next statement; SpecSingle is the    *)
(* single-file script of resources/usr/bin.                                *)
(*                                                                         *)
(* The OpenCGA platform is the environment.  What the model assumes of it: *)
(*   - an upload the CLI reports without "ERROR" leaves one file record    *)
(*     whose internal status is READY;                                     *)
(*   - an index job that ends DONE leaves the file's index status READY;   *)
(*   - an annotation job that ends DONE leaves annotationIndex READY for   *)
(*     every indexed file; a secondary index job that ends DONE leaves     *)
(*     secondaryIndex READY for every annotated file;                      *)
(*   - a job that does not end DONE changes no status.                     *)
(***************************************************************************)
EXTENDS Integers, Sequences, FiniteSets, TLC

\* ---------------------------------------------------------------- bounds
NumFiles == 2
MaxRuns == 2

Files == 1..NumFiles
NoFile == 0

\* ------------------------------------------------------- platform values
\* internal status names of a file record: the literal READY, or another
StatusNames == {"READY", "NONE"}
\* execution status names jobs.info returns once wait_for_job has returned
JobStatusNames == {"DONE", "ERROR"}
\* every status name jobs.info may report once the wait has returned: the two
\* above, ABORTED, and a status that is not final yet
AllJobStatusNames == JobStatusNames \cup {"ABORTED", "RUNNING"}

VARIABLES
    \* OpenCGA (environment)
    numResults,         \* file -> number of records files.search returns
    fileStatus,         \* file -> internal.status
    indexStatus,        \* file -> internal.variant.index.status
    annotationStatus,   \* file -> internal.variant.annotationIndex.status
    secondaryStatus,    \* file -> internal.variant.secondaryIndex.status
    pendingAnnotation,  \* a PENDING annotation job exists in the study
    sampleJob,          \* status of the secondary sample index job, if any
    job_status_names,   \* the status names jobs.info reports in this run
    attributes,         \* how the attribute stored with an existing record
                        \* compares with file_data["attributes"]; it varies
                        \* where no attribute update follows a probe of it
    \* one process of the loader
    somatic,            \* args.somatic (line 268)
    multi_file,         \* vcf_data[vcf]["multi_file"] (line 276)
    run,                \* number of the current invocation of the script
    vcf_data,           \* the VCFs of this invocation, in loop order
    k,                  \* position of the loop of line 274 in vcf_data
    pc,                 \* statement the process is at
    uploaded, indexed, annotated, sample_index,  \* locals of __main__
    existing_file_path, sample_ids,              \* locals of __main__
    i, success, status, \* locals of index_file
    data_obj,           \* local of index_file: the payload of run_index
    index_result,       \* file -> what index_file returned in this run
    exitCode,           \* how the process ended
    \* observation
    calls,              \* calls made to the platform since the last probe,
                        \* the probe's search first
    job_info,           \* statuses jobs.info returned since the last probe
    submitted_data,     \* payloads index_file has passed to run_index
    logged,             \* lines logged since the last probe: job ids and
                        \* failures of the attribute update
    annotJobs,          \* annotation jobs submitted, over all runs
    history             \* one record per earlier run of the script

platform == <<numResults, fileStatus, indexStatus, annotationStatus,
              secondaryStatus, pendingAnnotation>>
mainLocals == <<uploaded, indexed, annotated, sample_index,
                existing_file_path, sample_ids>>
indexLocals == <<i, success, status>>
args == <<somatic, multi_file, job_status_names, attributes>>
vars == <<numResults, fileStatus, indexStatus, annotationStatus,
          secondaryStatus, pendingAnnotation, run, vcf_data, k, pc,
          uploaded, indexed, annotated, sample_index, existing_file_path,
          sample_ids, i, success, status,
          index_result, exitCode, calls, job_info,
          annotJobs, history, sampleJob, somatic, multi_file, data_obj,
          submitted_data, logged, job_status_names, attributes>>

\* ---------------------------------------------------------------- helpers
\* the VCFs of one invocation, the keys of the dict vcf_data: the files are
\* numbered in the order of the loop of line 274
Batch(n) == [j \in 1..n |-> j]

\* the loop variable vcf of line 274
vcf == vcf_data[k]

Call(op, f) == [op |-> op, file |-> f]
JobInfo(op, f, st) == [op |-> op, file |-> f, st |-> st]

\* the line logged after a submission: "... with job ID: ..."
JobIdLine(op) == [msg |-> "job ID", op |-> op]

\* line 213: "Failed to add the attributes to the file in OpenCGA"
AttributesFailedLine == [msg |-> "Failed to add the attributes", op |-> "update"]

\* lines 139-148: an attribute of file_data is stored with the record and
\* equal, stored and different, or not stored
AttributeStates == {"match", "mismatch", "missing"}

\* lines 144 and 148: the warning of the attribute check
AttributeWarningLine(at) == [msg |-> "attribute warning", op |-> at]

\* lines 138-148: what the attribute check of the probe logs as warnings
AttributeLines(n, fs, at) ==
    IF n = 1 /\ fs = "READY" /\ at # "match"
    THEN <<AttributeWarningLine(at)>>
    ELSE <<>>

\* Python truthiness of a local holding None, True or False
Truthy(v) == v = "True"

PyBool(b) == IF b THEN "True" ELSE "False"

\* the mutating calls among the calls to the platform
MutatingOps == {"upload", "update", "run_index", "variant_stats",
                "annotation", "secondary_annotation"}

\* number of calls of operation op on file f in a log
IsCall(e, op, f) == e = Call(op, f)

NCalls(log, op, f) == Len(SelectSeq(log, LAMBDA e : IsCall(e, op, f)))

\* the operations of the calls of a log that are in the set ops, in order
OpsIn(log, ops) ==
    LET sel == SelectSeq(log, LAMBDA e : e.op \in ops)
    IN [n \in DOMAIN sel |-> sel[n].op]

\* the mutating calls of a log, in order
Mutating(log) == OpsIn(log, MutatingOps)

\* the calls of the four stages in a log, in order
StageOps == {"upload", "run_index", "annotation", "secondary_annotation"}

Stages(log) == OpsIn(log, StageOps)

\* the statuses jobs.info returned for the jobs of operation op on file f
StatusesOf(log, op, f) ==
    LET sel == SelectSeq(log, LAMBDA e : e.op = op /\ e.file = f)
    IN [n \in DOMAIN sel |-> sel[n].st]

Range(q) == {q[n] : n \in DOMAIN q}

\* -------------------------------------------------------------- constants
\* a retry count one short
retry_short == 3 - 1

\* index_file: retry = 3
retry == 3

\* annotate_variants / secondary_annotation_index: delay=True, never passed
delay == TRUE

\* ------------------------------------------------------------------ probe
\* a probe without the case of a search with no result
check_file_status_any_record(n, fs, is, as, ss) ==
    [uploaded |-> PyBool(fs = "READY"),
     indexed |-> PyBool(is = "READY"),
     annotated |-> PyBool(as = "READY"),
     sample_index |-> PyBool(ss = "READY"),
     file_path |-> IF fs = "READY" THEN "path" ELSE "None",
     sample_ids |-> IF fs = "READY" THEN "sampleIds" ELSE "None"]

\* a probe for which a stage is ready unless its status is ERROR or NONE
check_file_status_not_failed(n, fs, is, as, ss) ==
    IF n = 0
    THEN [uploaded |-> "False", indexed |-> "None", annotated |-> "None",
          sample_index |-> "None", file_path |-> "None",
          sample_ids |-> "None"]
    ELSE [uploaded |-> PyBool(fs \notin {"ERROR", "NONE"}),
          indexed |-> PyBool(is \notin {"ERROR", "NONE"}),
          annotated |-> PyBool(as \notin {"ERROR", "NONE"}),
          sample_index |-> PyBool(ss \notin {"ERROR", "NONE"}),
          file_path |-> IF fs = "READY" THEN "path" ELSE "None",
          sample_ids |-> IF fs = "READY" THEN "sampleIds" ELSE "None"]

\* check_file_status: what it returns for a search with n results whose
\* single record has the four status names given
check_file_status(n, fs, is, as, ss) ==
    IF n = 0
    THEN [uploaded |-> "False", indexed |-> "None", annotated |-> "None",
          sample_index |-> "None", file_path |-> "None",
          sample_ids |-> "None"]
    ELSE [uploaded |-> PyBool(fs = "READY"),
          indexed |-> PyBool(is = "READY"),
          annotated |-> PyBool(as = "READY"),
          sample_index |-> PyBool(ss = "READY"),
          file_path |-> IF fs = "READY" THEN "path" ELSE "None",
          sample_ids |-> IF fs = "READY" THEN "sampleIds" ELSE "None"]

\* ------------------------------------------------------------------- Init
\* the process before the interpreter reaches line 274
InitProcess ==
    /\ run = 0
    /\ k = 0
    /\ pc = "start"
    /\ uploaded = "Unbound" /\ indexed = "Unbound"
    /\ annotated = "Unbound" /\ sample_index = "Unbound"
    /\ existing_file_path = "Unbound" /\ sample_ids = "Unbound"
    /\ i = 0 /\ success = "None" /\ status = "Unbound"
    /\ data_obj = "Unbound"
    /\ submitted_data = <<>>
    /\ logged = <<>>
    /\ index_result = [f \in Files |-> "NotCalled"]
    /\ exitCode = "running"
    /\ calls = <<>>
    /\ job_info = <<>>
    /\ annotJobs = 0
    /\ history = <<>>

\* a run without --somatic and without --multifile; no secondary sample
\* index job in the study
InitArgs ==
    /\ somatic = FALSE
    /\ multi_file = FALSE
    /\ job_status_names = JobStatusNames
    /\ attributes = "match"
    /\ sampleJob = "none"

\* the study holds, for each file of fs, no record, one record with any
\* four status names, or several records; and no record of another file
InitPlatform(fs) ==
    /\ numResults \in [Files -> 0..2]
    /\ fileStatus \in [Files -> StatusNames]
    /\ indexStatus \in [Files -> StatusNames]
    /\ annotationStatus \in [Files -> StatusNames]
    /\ secondaryStatus \in [Files -> StatusNames]
    /\ \A f \in Files \ fs : numResults[f] = 0
    \* no single record, no statuses to tell apart
    /\ \A f \in Files : numResults[f] # 1 =>
          /\ fileStatus[f] = "NONE" /\ indexStatus[f] = "NONE"
          /\ annotationStatus[f] = "NONE" /\ secondaryStatus[f] = "NONE"

\* one invocation of the script on 1 to NumFiles VCFs, no annotation job
\* of another origin pending
Init ==
    /\ \E n \in 1..NumFiles :
          /\ vcf_data = Batch(n)
          /\ InitPlatform(1..n)
    /\ pendingAnnotation = FALSE
    /\ InitArgs
    /\ InitProcess

\* invocations of the script one after the other, each on one VCF, the
\* first on file 1
InitSerial ==
    /\ vcf_data = Batch(1)
    /\ InitPlatform(Files)
    /\ pendingAnnotation \in BOOLEAN
    /\ InitArgs
    /\ InitProcess

\* ---------------------------------------------------------------- process
\* sys.exit(1), or an uncaught exception ("traceback")
Exit(code) ==
    /\ pc' = "exit"
    /\ exitCode' = code

\* the interpreter reaches line 274 with the VCFs b
Begin(b) ==
    /\ vcf_data' = b
    /\ run' = run + 1
    /\ k' = 1
    /\ pc' = "check"
    /\ uploaded' = "Unbound" /\ indexed' = "Unbound"
    /\ annotated' = "Unbound" /\ sample_index' = "Unbound"
    /\ existing_file_path' = "Unbound" /\ sample_ids' = "Unbound"
    /\ i' = 0 /\ success' = "None" /\ status' = "Unbound"
    /\ index_result' = [f \in Files |-> "NotCalled"]
    /\ exitCode' = "running"
    /\ calls' = <<>>
    /\ job_info' = <<>>
    /\ data_obj' = "Unbound"
    /\ submitted_data' = <<>>
    /\ logged' = <<>>
    /\ UNCHANGED <<args, sampleJob>>
    /\ UNCHANGED <<platform, annotJobs>>

\* the script is started on its list of VCFs
StartRun ==
    /\ pc = "start"
    /\ Begin(vcf_data)
    /\ UNCHANGED history

\* the script has ended and is started again, on one VCF
Restart ==
    /\ pc \in {"done", "exit"}
    /\ run < MaxRuns
    /\ \E f \in Files : Begin(<<f>>)
    /\ history' = Append(history, [vcfs |-> vcf_data, annotated |-> annotated,
                                  exitCode |-> exitCode])

\* a probe that reads the first record when the search returns several
CheckFileStatus_first_match ==
    /\ pc = "check"
    /\ calls' = <<Call("search", vcf)>>
    /\ job_info' = <<>>
    /\ \/ /\ Exit("1")
          /\ UNCHANGED mainLocals
       \/ /\ LET r == check_file_status(numResults[vcf], fileStatus[vcf],
                                        indexStatus[vcf],
                                        annotationStatus[vcf],
                                        secondaryStatus[vcf])
             IN /\ uploaded' = r.uploaded
                /\ indexed' = r.indexed
                /\ annotated' = r.annotated
                /\ sample_index' = r.sample_index
                /\ existing_file_path' = r.file_path
                /\ sample_ids' = r.sample_ids
          /\ pc' = "upload"
          /\ UNCHANGED exitCode
    /\ logged' = <<>>
    /\ UNCHANGED <<args, sampleJob, data_obj, submitted_data>>
    /\ UNCHANGED <<platform, run, vcf_data, k, indexLocals, index_result,
                   annotJobs, history>>

\* a probe that searches again when the search raises
CheckFileStatus_retry ==
    /\ pc = "check"
    /\ calls' = <<Call("search", vcf)>>
    /\ job_info' = <<>>
    /\ \/ /\ pc' = "check"
          /\ UNCHANGED <<mainLocals, exitCode>>
       \/ /\ numResults[vcf] > 1
          /\ Exit("1")
          /\ UNCHANGED mainLocals
       \/ /\ numResults[vcf] <= 1
          /\ LET r == check_file_status(numResults[vcf], fileStatus[vcf],
                                        indexStatus[vcf],
                                        annotationStatus[vcf],
                                        secondaryStatus[vcf])
             IN /\ uploaded' = r.uploaded
                /\ indexed' = r.indexed
                /\ annotated' = r.annotated
                /\ sample_index' = r.sample_index
                /\ existing_file_path' = r.file_path
                /\ sample_ids' = r.sample_ids
          /\ pc' = "upload"
          /\ UNCHANGED exitCode
    /\ logged' = <<>>
    /\ UNCHANGED <<args, sampleJob, data_obj, submitted_data>>
    /\ UNCHANGED <<platform, run, vcf_data, k, indexLocals, index_result,
                   annotJobs, history>>

\* line 303: check_file_status on the current VCF
CheckFileStatus_any_unannotated ==
    /\ pc = "check"
    /\ calls' = <<Call("search", vcf)>>
    /\ job_info' = <<>>
    /\ \/ \* oc.files.search raises: logger.exception, sys.exit(1)
          /\ Exit("1")
          /\ UNCHANGED mainLocals
       \/ \* more than one file with this name: sys.exit(1)
          /\ numResults[vcf] > 1
          /\ Exit("1")
          /\ UNCHANGED mainLocals
       \/ /\ numResults[vcf] <= 1
          /\ LET r == check_file_status(numResults[vcf], fileStatus[vcf],
                                        indexStatus[vcf],
                                        annotationStatus[vcf],
                                        secondaryStatus[vcf])
             IN /\ uploaded' = r.uploaded
                /\ indexed' = r.indexed
                /\ annotated' = IF k > 1 /\ ~Truthy(annotated)
                                THEN annotated ELSE r.annotated
                /\ sample_index' = r.sample_index
                /\ existing_file_path' = r.file_path
                /\ sample_ids' = r.sample_ids
          /\ pc' = "upload"
          /\ UNCHANGED exitCode
    /\ logged' = <<>>
    /\ UNCHANGED <<args, sampleJob, data_obj, submitted_data>>
    /\ UNCHANGED <<platform, run, vcf_data, k, indexLocals, index_result,
                   annotJobs, history>>

CheckFileStatus_strict_attributes ==
    /\ pc = "check"
    /\ calls' = <<Call("search", vcf)>>
    /\ job_info' = <<>>
    /\ \/ \* oc.files.search raises: logger.exception, sys.exit(1)
          /\ Exit("1")
          /\ logged' = <<>>
          /\ UNCHANGED mainLocals
       \/ \* more than one file with this name: sys.exit(1)
          /\ numResults[vcf] > 1
          /\ Exit("1")
          /\ logged' = <<>>
          /\ UNCHANGED mainLocals
       \/ /\ numResults[vcf] <= 1
          /\ LET r == check_file_status(numResults[vcf], fileStatus[vcf],
                                        indexStatus[vcf],
                                        annotationStatus[vcf],
                                        secondaryStatus[vcf])
             IN /\ uploaded' = r.uploaded
                /\ indexed' = r.indexed
                /\ annotated' = r.annotated
                /\ sample_index' = r.sample_index
                /\ existing_file_path' = r.file_path
                /\ sample_ids' = r.sample_ids
          /\ logged' = AttributeLines(numResults[vcf], fileStatus[vcf],
                                      attributes)
          /\ IF AttributeLines(numResults[vcf], fileStatus[vcf],
                               attributes) = <<>>
             THEN pc' = "upload" /\ UNCHANGED exitCode
             ELSE Exit("1")
    /\ UNCHANGED <<args, sampleJob, data_obj, submitted_data>>
    /\ UNCHANGED <<platform, run, vcf_data, k, indexLocals, index_result,
                   annotJobs, history>>

CheckFileStatus ==
    /\ pc = "check"
    /\ calls' = <<Call("search", vcf)>>
    /\ job_info' = <<>>
    /\ \/ \* oc.files.search raises: logger.exception, sys.exit(1)
          /\ Exit("1")
          /\ logged' = <<>>
          /\ UNCHANGED mainLocals
       \/ \* more than one file with this name: sys.exit(1)
          /\ numResults[vcf] > 1
          /\ Exit("1")
          /\ logged' = <<>>
          /\ UNCHANGED mainLocals
       \/ /\ numResults[vcf] <= 1
          /\ LET r == check_file_status(numResults[vcf], fileStatus[vcf],
                                        indexStatus[vcf],
                                        annotationStatus[vcf],
                                        secondaryStatus[vcf])
             IN /\ uploaded' = r.uploaded
                /\ indexed' = r.indexed
                /\ annotated' = r.annotated
                /\ sample_index' = r.sample_index
                /\ existing_file_path' = r.file_path
                /\ sample_ids' = r.sample_ids
          /\ logged' = AttributeLines(numResults[vcf], fileStatus[vcf],
                                      attributes)
          /\ pc' = "upload"
          /\ UNCHANGED exitCode
    /\ UNCHANGED <<args, sampleJob, data_obj, submitted_data>>
    /\ UNCHANGED <<platform, run, vcf_data, k, indexLocals, index_result,
                   annotJobs, history>>

\* a coordinator that updates the attributes of a file it does not upload
SkipUpload_update ==
    /\ pc = "upload"
    /\ Truthy(uploaded)
    /\ pc' = "update"
    /\ UNCHANGED <<args, sampleJob, data_obj, submitted_data, logged>>
    /\ UNCHANGED <<platform, run, vcf_data, k, mainLocals, indexLocals,
                   index_result, exitCode, calls, job_info, annotJobs, history>>

\* line 310: the file is uploaded already
SkipUpload ==
    /\ pc = "upload"
    /\ Truthy(uploaded)
    /\ pc' = "index"
    /\ UNCHANGED <<args, sampleJob, data_obj, submitted_data, logged>>
    /\ UNCHANGED <<platform, run, vcf_data, k, mainLocals, indexLocals,
                   index_result, exitCode, calls, job_info, annotJobs, history>>

\* upload_file that goes on after an upload that failed
UploadFile_no_exit ==
    /\ pc = "upload"
    /\ ~Truthy(uploaded)
    /\ calls' = Append(calls, Call("upload", vcf))
    /\ \/ /\ pc' = "update"
          /\ UNCHANGED <<platform, exitCode>>
       \/ /\ pc' = "update"
          /\ numResults' = [numResults EXCEPT ![vcf] = 1]
          /\ fileStatus' = [fileStatus EXCEPT ![vcf] = "READY"]
          /\ UNCHANGED <<indexStatus, annotationStatus, secondaryStatus,
                         pendingAnnotation, exitCode>>
    /\ UNCHANGED <<args, sampleJob, data_obj, submitted_data, logged>>
    /\ UNCHANGED <<run, vcf_data, k, mainLocals, indexLocals, index_result,
                   job_info, annotJobs, history>>

\* upload_file that runs the upload again after an upload that failed
UploadFile_retry ==
    /\ pc = "upload"
    /\ ~Truthy(uploaded)
    /\ calls' = Append(calls, Call("upload", vcf))
    /\ \/ /\ pc' = "upload"
          /\ Len(calls) < 3
          /\ UNCHANGED <<platform, exitCode>>
       \/ /\ pc' = "update"
          /\ numResults' = [numResults EXCEPT ![vcf] = 1]
          /\ fileStatus' = [fileStatus EXCEPT ![vcf] = "READY"]
          /\ UNCHANGED <<indexStatus, annotationStatus, secondaryStatus,
                         pendingAnnotation, exitCode>>
    /\ UNCHANGED <<args, sampleJob, data_obj, submitted_data, logged>>
    /\ UNCHANGED <<run, vcf_data, k, mainLocals, indexLocals, index_result,
                   job_info, annotJobs, history>>

\* upload_file called whatever the probe said of the upload
UploadFile_again ==
    /\ pc = "upload"
    /\ calls' = Append(calls, Call("upload", vcf))
    /\ \/ /\ Exit("1")
          /\ UNCHANGED platform
       \/ /\ pc' = "update"
          /\ numResults' = [numResults EXCEPT ![vcf] = 1]
          /\ fileStatus' = [fileStatus EXCEPT ![vcf] = "READY"]
          /\ UNCHANGED <<indexStatus, annotationStatus, secondaryStatus,
                         pendingAnnotation, exitCode>>
    /\ UNCHANGED <<args, sampleJob, data_obj, submitted_data, logged>>
    /\ UNCHANGED <<run, vcf_data, k, mainLocals, indexLocals, index_result,
                   job_info, annotJobs, history>>

\* lines 315, 197-207: upload_file runs the CLI upload and waits for it
UploadFile ==
    /\ pc = "upload"
    /\ ~Truthy(uploaded)
    /\ calls' = Append(calls, Call("upload", vcf))
    /\ \/ \* "ERROR" in stderr: sys.exit(1)
          /\ Exit("1")
          /\ UNCHANGED platform
       \/ /\ pc' = "update"
          /\ numResults' = [numResults EXCEPT ![vcf] = 1]
          /\ fileStatus' = [fileStatus EXCEPT ![vcf] = "READY"]
          /\ UNCHANGED <<indexStatus, annotationStatus, secondaryStatus,
                         pendingAnnotation, exitCode>>
    /\ UNCHANGED <<args, sampleJob, data_obj, submitted_data, logged>>
    /\ UNCHANGED <<run, vcf_data, k, mainLocals, indexLocals, index_result,
                   job_info, annotJobs, history>>

\* an attribute update whose failure ends the process
UpdateAttributes_exit ==
    /\ pc = "update"
    /\ calls' = Append(calls, Call("update", vcf))
    /\ \/ logged' = logged /\ pc' = "index" /\ UNCHANGED exitCode
       \/ logged' = Append(logged, AttributesFailedLine) /\ Exit("1")
    /\ UNCHANGED <<args, sampleJob, data_obj, submitted_data>>
    /\ UNCHANGED <<platform, run, vcf_data, k, mainLocals, indexLocals,
                   index_result, job_info, annotJobs, history>>

\* lines 210-213: oc.files.update; an exception is logged and dropped
UpdateAttributes ==
    /\ pc = "update"
    /\ calls' = Append(calls, Call("update", vcf))
    /\ pc' = "index"
    /\ \/ logged' = logged
       \/ \* line 213: the exception is caught and logged
          logged' = Append(logged, AttributesFailedLine)
    /\ UNCHANGED <<args, sampleJob, data_obj, submitted_data>>
    /\ UNCHANGED <<platform, run, vcf_data, k, mainLocals, indexLocals,
                   index_result, exitCode, job_info, annotJobs, history>>

\* end of the body of the loop of line 274
NextVcf_phase_per_file ==
    k' = k /\ pc' = "stats"

NextVcf ==
    IF k < Len(vcf_data)
    THEN k' = k + 1 /\ pc' = "check"
    ELSE k' = k /\ pc' = "stats"

\* line 319: the file is indexed already
SkipIndex ==
    /\ pc = "index"
    /\ Truthy(indexed)
    /\ NextVcf
    /\ UNCHANGED <<args, sampleJob, data_obj, submitted_data, logged>>
    /\ UNCHANGED <<platform, run, vcf_data, mainLocals, indexLocals,
                   index_result, exitCode, calls, job_info, annotJobs, history>>

\* lines 323, 224-230: index_file is entered
IndexFile ==
    /\ pc = "index"
    /\ ~Truthy(indexed)
    /\ i' = 0
    /\ success' = "None"
    /\ status' = "Unbound"
    /\ pc' = "run_index"
    \* lines 225-229: the keys somatic and loadMultiFileData are set, to
    \* True, when the flags are true
    /\ data_obj' = [file |-> vcf, somatic |-> somatic,
                    loadMultiFileData |-> multi_file]
    /\ submitted_data' = <<>>
    /\ UNCHANGED <<args, sampleJob, logged>>
    /\ UNCHANGED <<platform, run, vcf_data, k, mainLocals, index_result,
                   exitCode, calls, job_info, annotJobs, history>>

\* a run_index that sets the somatic flag when it is called again
RunIndex_other_payload ==
    /\ pc = "run_index"
    /\ i < retry
    /\ calls' = Append(calls, Call("run_index", vcf))
    /\ pc' = "index_wait"
    /\ submitted_data' =
          Append(submitted_data,
                 IF i = 0 THEN data_obj
                 ELSE [data_obj EXCEPT !.somatic = TRUE])
    /\ logged' = Append(logged, JobIdLine("run_index"))
    /\ UNCHANGED <<args, sampleJob, data_obj>>
    /\ UNCHANGED <<platform, run, vcf_data, k, mainLocals, indexLocals,
                   index_result, exitCode, job_info, annotJobs, history>>

\* lines 239, 233-234: an iteration of the loop submits the index job
RunIndex ==
    /\ pc = "run_index"
    /\ i < retry
    /\ calls' = Append(calls, Call("run_index", vcf))
    /\ pc' = "index_wait"
    /\ submitted_data' = Append(submitted_data, data_obj)
    /\ logged' = Append(logged, JobIdLine("run_index"))
    /\ UNCHANGED <<args, sampleJob, data_obj>>
    /\ UNCHANGED <<platform, run, vcf_data, k, mainLocals, indexLocals,
                   index_result, exitCode, job_info, annotJobs, history>>

\* a loop of index_file without the break of line 245
IndexWait_no_break ==
    /\ pc = "index_wait"
    /\ \/ \* ValueError: the handler reads status (unbound in the first
          \* iteration: an uncaught exception), then sys.exit(1)
          /\ Exit(IF status = "Unbound" THEN "traceback" ELSE "1")
          /\ UNCHANGED <<platform, indexLocals, job_info>>
       \/ \E st \in job_status_names :
          /\ status' = st
          /\ job_info' = Append(job_info, JobInfo("run_index", vcf, st))
          /\ IF st = "DONE"
             THEN /\ success' = "True"
                  /\ i' = i + 1
                  /\ pc' = "run_index"
                  /\ indexStatus' = [indexStatus EXCEPT ![vcf] = "READY"]
             ELSE /\ success' = success
                  /\ i' = i + 1
                  /\ pc' = "run_index"
                  /\ indexStatus' = indexStatus
          /\ UNCHANGED <<numResults, fileStatus, annotationStatus,
                         secondaryStatus, pendingAnnotation, exitCode>>
    /\ UNCHANGED <<args, sampleJob, data_obj, submitted_data, logged>>
    /\ UNCHANGED <<run, vcf_data, k, mainLocals, index_result, calls,
                   annotJobs, history>>

\* lines 235-256: wait_for_job, jobs.info and the test of the status
IndexWait_retry_on_error ==
    /\ pc = "index_wait"
    /\ \/ /\ Exit(IF status = "Unbound" THEN "traceback" ELSE "1")
          /\ UNCHANGED <<platform, indexLocals, job_info>>
       \/ \E st \in job_status_names :
          /\ status' = st
          /\ job_info' = Append(job_info, JobInfo("run_index", vcf, st))
          /\ IF st = "DONE"
             THEN /\ success' = "True"
                  /\ i' = i
                  /\ pc' = "index_return"
                  /\ indexStatus' = [indexStatus EXCEPT ![vcf] = "READY"]
             ELSE /\ success' = success
                  /\ i' = i + 1
                  /\ pc' = IF st = "ERROR" THEN "run_index"
                                            ELSE "index_return"
                  /\ indexStatus' = indexStatus
          /\ UNCHANGED <<numResults, fileStatus, annotationStatus,
                         secondaryStatus, pendingAnnotation, exitCode>>
    /\ UNCHANGED <<args, sampleJob, data_obj, submitted_data, logged>>
    /\ UNCHANGED <<run, vcf_data, k, mainLocals, index_result, calls,
                   annotJobs, history>>

IndexWait_retry_on_raise ==
    /\ pc = "index_wait"
    /\ \/ /\ i' = i + 1
          /\ pc' = "run_index"
          /\ UNCHANGED <<platform, success, status, job_info, exitCode>>
       \/ \E st \in job_status_names :
          /\ status' = st
          /\ job_info' = Append(job_info, JobInfo("run_index", vcf, st))
          /\ IF st = "DONE"
             THEN /\ success' = "True"
                  /\ i' = i
                  /\ pc' = "index_return"
                  /\ indexStatus' = [indexStatus EXCEPT ![vcf] = "READY"]
             ELSE /\ success' = success
                  /\ i' = i + 1
                  /\ pc' = "run_index"
                  /\ indexStatus' = indexStatus
          /\ UNCHANGED <<numResults, fileStatus, annotationStatus,
                         secondaryStatus, pendingAnnotation, exitCode>>
    /\ UNCHANGED <<args, sampleJob, data_obj, submitted_data, logged>>
    /\ UNCHANGED <<run, vcf_data, k, mainLocals, index_result, calls,
                   annotJobs, history>>

IndexWait_until_done ==
    /\ pc = "index_wait"
    /\ \/ /\ Exit(IF status = "Unbound" THEN "traceback" ELSE "1")
          /\ UNCHANGED <<platform, indexLocals, job_info>>
       \/ \E st \in job_status_names :
          /\ status' = st
          /\ job_info' = Append(job_info, JobInfo("run_index", vcf, st))
          /\ IF st = "DONE"
             THEN /\ success' = "True"
                  /\ i' = i
                  /\ pc' = "index_return"
                  /\ indexStatus' = [indexStatus EXCEPT ![vcf] = "READY"]
             ELSE /\ success' = success
                  /\ i' = i
                  /\ pc' = "run_index"
                  /\ indexStatus' = indexStatus
          /\ UNCHANGED <<numResults, fileStatus, annotationStatus,
                         secondaryStatus, pendingAnnotation, exitCode>>
    /\ UNCHANGED <<args, sampleJob, data_obj, submitted_data, logged>>
    /\ UNCHANGED <<run, vcf_data, k, mainLocals, index_result, calls,
                   annotJobs, history>>

IndexWait ==
    /\ pc = "index_wait"
    /\ \/ \* ValueError: the handler reads status (unbound in the first
          \* iteration: an uncaught exception), then sys.exit(1)
          /\ Exit(IF status = "Unbound" THEN "traceback" ELSE "1")
          /\ UNCHANGED <<platform, indexLocals, job_info>>
       \/ \E st \in job_status_names :
          /\ status' = st
          /\ job_info' = Append(job_info, JobInfo("run_index", vcf, st))
          /\ IF st = "DONE"
             THEN /\ success' = "True"
                  /\ i' = i
                  /\ pc' = "index_return"
                  /\ indexStatus' = [indexStatus EXCEPT ![vcf] = "READY"]
             ELSE /\ success' = success
                  /\ i' = i + 1
                  /\ pc' = "run_index"
                  /\ indexStatus' = indexStatus
          /\ UNCHANGED <<numResults, fileStatus, annotationStatus,
                         secondaryStatus, pendingAnnotation, exitCode>>
    /\ UNCHANGED <<args, sampleJob, data_obj, submitted_data, logged>>
    /\ UNCHANGED <<run, vcf_data, k, mainLocals, index_result, calls,
                   annotJobs, history>>

\* line 257: return success, after the break or after the last iteration;
\* line 323 drops the value
IndexFileReturn ==
    /\ \/ pc = "index_return"
       \/ pc = "run_index" /\ i >= retry
    /\ index_result' = [index_result EXCEPT ![vcf] = success]
    /\ NextVcf
    /\ UNCHANGED <<args, sampleJob, data_obj, submitted_data, logged>>
    /\ UNCHANGED <<platform, run, vcf_data, mainLocals, indexLocals,
                   exitCode, calls, job_info, annotJobs, history>>

\* variant_stats_index that returns without the wait
VariantStatsIndex_no_wait ==
    /\ pc = "stats"
    /\ calls' = Append(calls, Call("variant_stats", NoFile))
    /\ pc' = "annot1"
    /\ logged' = Append(logged, JobIdLine("variant_stats"))
    /\ UNCHANGED <<args, sampleJob, data_obj, submitted_data>>
    /\ UNCHANGED <<platform, run, vcf_data, k, mainLocals, indexLocals,
                   index_result, exitCode, job_info, annotJobs, history>>

\* lines 330, 270-271: variant_stats_index submits the cohort stats job
VariantStatsIndex ==
    /\ pc = "stats"
    /\ calls' = Append(calls, Call("variant_stats", NoFile))
    /\ pc' = "stats_wait"
    /\ logged' = Append(logged, JobIdLine("variant_stats"))
    /\ UNCHANGED <<args, sampleJob, data_obj, submitted_data>>
    /\ UNCHANGED <<platform, run, vcf_data, k, mainLocals, indexLocals,
                   index_result, exitCode, job_info, annotJobs, history>>

\* lines 272-283: the wait; the status is only logged
VariantStatsWait_exit_on_error ==
    /\ pc = "stats_wait"
    /\ \/ /\ Exit("1")
          /\ UNCHANGED job_info
       \/ \E st \in job_status_names :
          /\ job_info' = Append(job_info, JobInfo("variant_stats", NoFile, st))
          /\ IF st = "DONE"
             THEN pc' = "annot1" /\ UNCHANGED exitCode
             ELSE Exit("1")
    /\ UNCHANGED <<args, sampleJob, data_obj, submitted_data, logged>>
    /\ UNCHANGED <<platform, run, vcf_data, k, mainLocals, indexLocals,
                   index_result, calls, annotJobs, history>>

VariantStatsWait ==
    /\ pc = "stats_wait"
    /\ \/ /\ Exit("1")
          /\ UNCHANGED job_info
       \/ \E st \in job_status_names :
          /\ job_info' = Append(job_info, JobInfo("variant_stats", NoFile, st))
          /\ pc' = "annot1"
          /\ UNCHANGED exitCode
    /\ UNCHANGED <<args, sampleJob, data_obj, submitted_data, logged>>
    /\ UNCHANGED <<platform, run, vcf_data, k, mainLocals, indexLocals,
                   index_result, calls, annotJobs, history>>

\* lines 334-335 and 341-342: the file is annotated already
SkipAnnotation(here, next) ==
    /\ pc = here
    /\ Truthy(annotated)
    /\ pc' = next
    /\ UNCHANGED <<args, sampleJob, data_obj, submitted_data, logged>>
    /\ UNCHANGED <<platform, run, vcf_data, k, mainLocals, indexLocals,
                   index_result, exitCode, calls, job_info, annotJobs, history>>

\* annotate_variants that does not log the id of its job
AnnotateVariants_no_log(here, wait) ==
    /\ pc = here
    /\ ~Truthy(annotated)
    /\ calls' = Append(calls, Call("annotation", NoFile))
    /\ annotJobs' = annotJobs + 1
    /\ pc' = wait
    /\ logged' = logged
    /\ UNCHANGED <<args, sampleJob, data_obj, submitted_data>>
    /\ UNCHANGED <<platform, run, vcf_data, k, mainLocals, indexLocals,
                   index_result, exitCode, job_info, history>>

\* lines 339 and 346, 296-298: annotate_variants submits the job, whatever
\* delay is and whatever jobs are pending
AnnotateVariants(here, wait) ==
    /\ pc = here
    /\ ~Truthy(annotated)
    /\ calls' = Append(calls, Call("annotation", NoFile))
    /\ annotJobs' = annotJobs + 1
    /\ pc' = wait
    /\ logged' = Append(logged, JobIdLine("annotation"))
    /\ UNCHANGED <<args, sampleJob, data_obj, submitted_data>>
    /\ UNCHANGED <<platform, run, vcf_data, k, mainLocals, indexLocals,
                   index_result, exitCode, job_info, history>>

\* lines 300-312: the wait; the status is only logged
AnnotateWait(wait, next) ==
    /\ pc = wait
    /\ \/ /\ Exit("1")
          /\ UNCHANGED <<platform, job_info>>
       \/ \E st \in job_status_names :
          /\ job_info' = Append(job_info, JobInfo("annotation", NoFile, st))
          /\ pc' = next
          /\ annotationStatus' =
                IF st = "DONE"
                THEN [f \in Files |-> IF indexStatus[f] = "READY"
                                      THEN "READY" ELSE annotationStatus[f]]
                ELSE annotationStatus
          /\ UNCHANGED <<numResults, fileStatus, indexStatus,
                         secondaryStatus, pendingAnnotation, exitCode>>
    /\ UNCHANGED <<args, sampleJob, data_obj, submitted_data, logged>>
    /\ UNCHANGED <<run, vcf_data, k, mainLocals, indexLocals, index_result,
                   calls, annotJobs, history>>

\* lines 358 and 360, 323-324: secondary_annotation_index submits the job
SecondaryAnnotationIndex(here, wait) ==
    /\ pc = here
    /\ calls' = Append(calls, Call("secondary_annotation", NoFile))
    /\ pc' = wait
    /\ logged' = Append(logged, JobIdLine("secondary_annotation"))
    /\ UNCHANGED <<args, sampleJob, data_obj, submitted_data>>
    /\ UNCHANGED <<platform, run, vcf_data, k, mainLocals, indexLocals,
                   index_result, exitCode, job_info, annotJobs, history>>

\* lines 326-338: the wait; the status is only logged
SecondaryWait(wait, next) ==
    /\ pc = wait
    /\ \/ /\ Exit("1")
          /\ UNCHANGED <<platform, job_info>>
       \/ \E st \in job_status_names :
          /\ job_info' = Append(job_info,
                                JobInfo("secondary_annotation", NoFile, st))
          /\ pc' = next
          /\ secondaryStatus' =
                IF st = "DONE"
                THEN [f \in Files |-> IF annotationStatus[f] = "READY"
                                      THEN "READY" ELSE secondaryStatus[f]]
                ELSE secondaryStatus
          /\ UNCHANGED <<numResults, fileStatus, indexStatus,
                         annotationStatus, pendingAnnotation, exitCode>>
    /\ UNCHANGED <<args, sampleJob, data_obj, submitted_data, logged>>
    /\ UNCHANGED <<run, vcf_data, k, mainLocals, indexLocals, index_result,
                   calls, annotJobs, history>>

\* lines 362-378: the loop of line 378 starts; the loop of lines 371-377
\* only reads vcf_data
StartMetadata ==
    /\ pc = "metadata_start"
    /\ k' = 1
    /\ pc' = "metadata"
    /\ UNCHANGED <<args, sampleJob, data_obj, submitted_data, logged>>
    /\ UNCHANGED <<platform, run, vcf_data, mainLocals, indexLocals,
                   index_result, exitCode, calls, job_info, annotJobs, history>>

\* end of the body of the loop of line 378
NextMetadata ==
    IF k < Len(vcf_data)
    THEN k' = k + 1 /\ pc' = "metadata"
    ELSE k' = k /\ pc' = "finish"

\* lines 379-383: the VCF has no individuals, samples or clinical data
SkipMetadata ==
    /\ pc = "metadata"
    /\ NextMetadata
    /\ UNCHANGED <<args, sampleJob, data_obj, submitted_data, logged>>
    /\ UNCHANGED <<platform, run, vcf_data, mainLocals, indexLocals,
                   index_result, exitCode, calls, job_info, annotJobs, history>>

\* the calls of lines 387-443 for file f, the individual and the case
\* being new to the study or not
MetadataCalls(f, newIndividual, newCase) ==
    <<Call("files_info", f), Call("files_info", f)>>
    \o (IF newIndividual THEN <<Call("individuals_create", f)>> ELSE <<>>)
    \o <<Call("samples_update", f)>>
    \o (IF newCase THEN <<Call("clinical_create", f)>> ELSE <<>>)

\* lines 384-445: the VCF has them: the individual and the clinical case
\* are created unless they exist, the samples are updated
LoadMetadata ==
    /\ pc = "metadata"
    /\ \/ \* lines 391-393: no sample left in sampleIds: sys.exit(1)
          /\ calls' = calls \o <<Call("files_info", vcf),
                                 Call("files_info", vcf)>>
          /\ Exit("1")
       \/ \E newIndividual, newCase \in BOOLEAN :
          /\ calls' = calls \o MetadataCalls(vcf, newIndividual, newCase)
          /\ pc' = "sample_index"
          /\ UNCHANGED exitCode
    /\ UNCHANGED <<args, sampleJob, data_obj, submitted_data, logged>>
    /\ UNCHANGED <<platform, run, vcf_data, k, mainLocals, indexLocals,
                   index_result, job_info, annotJobs, history>>

\* line 448: secondary_sample_index is called with the keyword sample,
\* which the function of opencga_functions.py does not take: TypeError,
\* uncaught.  Lines 451-456, the probe after it, are never reached.
SecondarySampleIndexCall ==
    /\ pc = "sample_index"
    /\ Exit("traceback")
    /\ UNCHANGED <<args, sampleJob, data_obj, submitted_data, logged>>
    /\ UNCHANGED <<platform, run, vcf_data, k, mainLocals, indexLocals,
                   index_result, calls, job_info, annotJobs, history>>

\* lines 458-460: the loggers are closed and the script ends
Finish ==
    /\ pc = "finish"
    /\ pc' = "done"
    /\ exitCode' = "0"
    /\ UNCHANGED <<args, sampleJob, data_obj, submitted_data, logged>>
    /\ UNCHANGED <<platform, run, vcf_data, k, mainLocals, indexLocals,
                   index_result, calls, job_info, annotJobs, history>>

Next ==
    \/ StartRun
    \/ CheckFileStatus
    \/ SkipUpload
    \/ UploadFile
    \/ UpdateAttributes
    \/ SkipIndex
    \/ IndexFile
    \/ RunIndex
    \/ IndexWait
    \/ IndexFileReturn
    \/ VariantStatsIndex
    \/ VariantStatsWait
    \/ SkipAnnotation("annot1", "annot2")
    \/ AnnotateVariants("annot1", "annot1_wait")
    \/ AnnotateWait("annot1_wait", "annot2")
    \/ SkipAnnotation("annot2", "sec1")
    \/ AnnotateVariants("annot2", "annot2_wait")
    \/ AnnotateWait("annot2_wait", "sec1")
    \/ SecondaryAnnotationIndex("sec1", "sec1_wait")
    \/ SecondaryWait("sec1_wait", "sec2")
    \/ SecondaryAnnotationIndex("sec2", "sec2_wait")
    \/ SecondaryWait("sec2_wait", "finish")
    \/ Finish

Spec == Init /\ [][Next]_vars

\* the steps of a run on VCFs that may come with metadata
NextWithMetadata ==
    \/ StartRun
    \/ CheckFileStatus
    \/ SkipUpload
    \/ UploadFile
    \/ UpdateAttributes
    \/ SkipIndex
    \/ IndexFile
    \/ RunIndex
    \/ IndexWait
    \/ IndexFileReturn
    \/ VariantStatsIndex
    \/ VariantStatsWait
    \/ SkipAnnotation("annot1", "annot2")
    \/ AnnotateVariants("annot1", "annot1_wait")
    \/ AnnotateWait("annot1_wait", "annot2")
    \/ SkipAnnotation("annot2", "sec1")
    \/ AnnotateVariants("annot2", "annot2_wait")
    \/ AnnotateWait("annot2_wait", "sec1")
    \/ SecondaryAnnotationIndex("sec1", "sec1_wait")
    \/ SecondaryWait("sec1_wait", "sec2")
    \/ SecondaryAnnotationIndex("sec2", "sec2_wait")
    \/ SecondaryWait("sec2_wait", "metadata_start")
    \/ StartMetadata
    \/ SkipMetadata
    \/ LoadMetadata
    \/ SecondarySampleIndexCall
    \/ Finish

\* one invocation of the script on one VCF
InitMetadata ==
    /\ vcf_data = Batch(1)
    /\ InitPlatform({1})
    /\ pendingAnnotation = FALSE
    /\ InitArgs
    /\ InitProcess

SpecMetadata == InitMetadata /\ [][NextWithMetadata]_vars

\* --------------------------------------------------- upload and index
\* one invocation on one VCF, with or without --somatic and --multifile
InitIndex ==
    /\ vcf_data = Batch(1)
    /\ InitPlatform({1})
    /\ pendingAnnotation = FALSE
    /\ somatic \in BOOLEAN
    /\ multi_file \in BOOLEAN
    /\ job_status_names = AllJobStatusNames
    /\ attributes \in AttributeStates
    /\ attributes # "match" => (numResults[1] = 1 /\ fileStatus[1] = "READY")
    /\ sampleJob = "none"
    /\ InitProcess

\* the script up to the end of the loop of line 274
NextIndex ==
    \/ StartRun
    \/ CheckFileStatus
    \/ SkipUpload
    \/ UploadFile
    \/ UpdateAttributes
    \/ SkipIndex
    \/ IndexFile
    \/ RunIndex
    \/ IndexWait
    \/ IndexFileReturn

SpecIndex == InitIndex /\ [][NextIndex]_vars

\* ------------------------------------------ secondary_sample_index alone
\* status names of a job on the platform
TerminalNames == {"DONE", "ERROR"}
RunningNames == {"PENDING", "RUNNING"}

\* opencga_functions.py 366-384: the job is submitted, its id is logged
\* and the function returns; the wait of lines 373-383 is commented out
SecondarySampleIndex ==
    /\ pc = "secondary_sample_index"
    /\ calls' = Append(calls, Call("secondary_sample", NoFile))
    /\ logged' = Append(logged, JobIdLine("secondary_sample"))
    /\ sampleJob' = "PENDING"
    /\ pc' = "secondary_sample_index_returned"
    /\ UNCHANGED <<args, data_obj, submitted_data>>
    /\ UNCHANGED <<platform, run, vcf_data, k, mainLocals, indexLocals,
                   index_result, exitCode, job_info, annotJobs, history>>

\* the platform runs the job
SampleJobRuns ==
    /\ sampleJob \in RunningNames
    /\ \/ sampleJob = "PENDING" /\ sampleJob' = "RUNNING"
       \/ sampleJob = "RUNNING" /\ sampleJob' \in TerminalNames
    /\ UNCHANGED <<args, data_obj, submitted_data, logged>>
    /\ UNCHANGED <<platform, run, vcf_data, k, pc, mainLocals, indexLocals,
                   index_result, exitCode, calls, job_info, annotJobs,
                   history>>

\* a caller has called secondary_sample_index(oc, study, logger), in any
\* state of the study
InitSampleIndex ==
    /\ vcf_data = Batch(1)
    /\ InitPlatform(Files)
    /\ pendingAnnotation = FALSE
    /\ InitArgs
    /\ run = 1
    /\ k = 1
    /\ pc = "secondary_sample_index"
    /\ uploaded = "Unbound" /\ indexed = "Unbound"
    /\ annotated = "Unbound" /\ sample_index = "Unbound"
    /\ existing_file_path = "Unbound" /\ sample_ids = "Unbound"
    /\ i = 0 /\ success = "None" /\ status = "Unbound"
    /\ data_obj = "Unbound"
    /\ submitted_data = <<>>
    /\ logged = <<>>
    /\ index_result = [f \in Files |-> "NotCalled"]
    /\ exitCode = "running"
    /\ calls = <<>>
    /\ job_info = <<>>
    /\ annotJobs = 0
    /\ history = <<>>

NextSampleIndex ==
    \/ SecondarySampleIndex
    \/ SampleJobRuns

SpecSampleIndex == InitSampleIndex /\ [][NextSampleIndex]_vars

NextSerial ==
    \/ Next
    \/ Restart

SpecSerial == InitSerial /\ [][NextSerial]_vars

\* ------------------------------------------------------------ probe alone
\* status names a record can hold: the literal READY and others
ProbeStatusNames == {"READY", "PENDING", "RUNNING", "ERROR", "NONE"}

\* one invocation on one VCF, of which the study holds no record, one
\* record with any four status names, or two records
InitProbe ==
    /\ vcf_data = Batch(1)
    /\ \E n \in 0..2 : \E fs, is, as, ss \in ProbeStatusNames :
          /\ n # 1 => fs = "NONE" /\ is = "NONE" /\ as = "NONE" /\ ss = "NONE"
          /\ numResults = [f \in Files |-> IF f = 1 THEN n ELSE 0]
          /\ fileStatus = [f \in Files |-> IF f = 1 THEN fs ELSE "NONE"]
          /\ indexStatus = [f \in Files |-> IF f = 1 THEN is ELSE "NONE"]
          /\ annotationStatus = [f \in Files |-> IF f = 1 THEN as ELSE "NONE"]
          /\ secondaryStatus = [f \in Files |-> IF f = 1 THEN ss ELSE "NONE"]
    /\ pendingAnnotation = FALSE
    /\ InitArgs
    /\ InitProcess

\* the script up to the return of check_file_status
NextProbe ==
    \/ StartRun
    \/ CheckFileStatus

SpecProbe == InitProbe /\ [][NextProbe]_vars

\* ------------------------------------------------------------------ claims
AnnotationInFlight == pc \in {"annot1_wait", "annot2_wait"}
SecondaryInFlight == pc \in {"sec1_wait", "sec2_wait"}
LaterStageOps == {"variant_stats", "annotation", "secondary_annotation"}

\* C1: an annotation job is submitted only while the platform reports
\* index = READY for every file the run advances.
C1_AnnotationOnlyWhenIndexed ==
    AnnotationInFlight =>
        \A f \in Range(vcf_data) : indexStatus[f] = "READY"

\* C2: once index_file has used its three attempts without a DONE, the run
\* submits no variant stats, annotation or secondary index job.
C2_StopsAfterIndexFailure ==
    (\E f \in Range(vcf_data) : index_result[f] = "None") =>
        \A n \in DOMAIN calls : calls[n].op \notin LaterStageOps

\* C3: a run on one file whose probe reports the four statuses READY makes
\* no mutating call.
C3_Idempotent ==
    ( /\ Len(vcf_data) = 1
      /\ Truthy(uploaded) /\ Truthy(indexed)
      /\ Truthy(annotated) /\ Truthy(sample_index) )
    => Mutating(calls) = <<>>

\* the file the calls are about: the one last probed
Advanced == calls[1].file

\* C4: index_file never submits more than three index jobs, and when it
\* has returned and none of its jobs ended DONE it has submitted exactly
\* three and returned no success.
C4_RetryBound ==
    calls # <<>> =>
        LET f == Advanced
            n == NCalls(calls, "run_index", f)
            sts == StatusesOf(job_info, "run_index", f)
        IN /\ n <= 3
           /\ ( /\ index_result[f] # "NotCalled"
                /\ \A j \in DOMAIN sts : sts[j] # "DONE" )
              => /\ n = 3
                 /\ Len(sts) = 3
                 /\ index_result[f] = "None"

C4_Witness ==
    /\ calls # <<>>
    /\ index_result[Advanced] = "None"
    /\ StatusesOf(job_info, "run_index", Advanced)
          = <<"ERROR", "ERROR", "ERROR">>

\* C5: with delay enabled no annotation job is submitted while a PENDING
\* annotation job exists, and with such a job present the runs submit at
\* most one annotation job in total.
C5_Coalescing ==
    /\ AnnotationInFlight => ~(delay /\ pendingAnnotation)
    /\ pendingAnnotation => annotJobs <= 1

\* C6: two runs, each on one file, on distinct files that both required
\* annotation, submit one annotation job in total.
C6_OneAnnotationJob ==
    ( /\ Len(history) = 1
      /\ pc = "done"
      /\ history[1].exitCode = "0"
      /\ history[1].vcfs # vcf_data
      /\ history[1].annotated \in {"None", "False"}
      /\ annotated \in {"None", "False"} )
    => annotJobs = 1

\* C7: a secondary index job is submitted only while the platform reports
\* annotation = READY for every file the run advances (so not after an
\* annotation job that ended in ERROR and left a file not annotated).
C7_SecondaryOnlyWhenAnnotated ==
    SecondaryInFlight =>
        \A f \in Range(vcf_data) : annotationStatus[f] = "READY"

\* C8: an index job is submitted only while the platform holds one record
\* of the file whose status is READY.
C8_IndexOnlyWhenUploaded ==
    pc = "index_wait" =>
        /\ numResults[vcf] = 1
        /\ fileStatus[vcf] = "READY"

C8_Witness ==
    /\ pc = "index_wait"
    /\ uploaded = "False"
    /\ NCalls(calls, "upload", vcf) = 1

AllReady(f) ==
    /\ numResults[f] = 1
    /\ fileStatus[f] = "READY" /\ indexStatus[f] = "READY"
    /\ annotationStatus[f] = "READY" /\ secondaryStatus[f] = "READY"

\* C9: a run on one file absent from the study, all of whose jobs end DONE,
\* calls upload, run-index, annotation and secondary index once each, in
\* that order, and ends with the four statuses READY.
C9_FreshFile ==
    ( /\ pc = "done"
      /\ Len(vcf_data) = 1
      /\ uploaded = "False" /\ indexed = "None"
      /\ \A j \in DOMAIN job_info : job_info[j].st = "DONE" )
    => /\ Stages(calls) = <<"upload", "run_index", "annotation",
                            "secondary_annotation">>
       /\ AllReady(1)

\* C10: a run on one file probed upload READY, index READY, annotation and
\* secondary index not READY makes no upload and no index call, submits
\* one annotation job, and submits the secondary index job only after that
\* job ended DONE.
C10_PartiallyProcessed ==
    ( /\ Len(vcf_data) = 1
      /\ uploaded = "True" /\ indexed = "True"
      /\ annotated = "False" /\ sample_index = "False" )
    => /\ NCalls(calls, "upload", 1) = 0
       /\ NCalls(calls, "run_index", 1) = 0
       /\ NCalls(calls, "annotation", NoFile) <= 1
       /\ SecondaryInFlight =>
             StatusesOf(job_info, "annotation", NoFile) = <<"DONE">>

\* the step appends to the log a call of operation op on file f
Submits(op, f) == calls' = Append(calls, Call(op, f))

\* no status of file f that is READY is another name after the step
StaysReady(f) ==
    /\ fileStatus[f] = "READY" => fileStatus'[f] = "READY"
    /\ indexStatus[f] = "READY" => indexStatus'[f] = "READY"
    /\ annotationStatus[f] = "READY" => annotationStatus'[f] = "READY"
    /\ secondaryStatus[f] = "READY" => secondaryStatus'[f] = "READY"

\* C11: no step of the coordinator takes a status of a file from READY to
\* another name, and the coordinator calls upload only on a file whose
\* status is not READY and submits an index job only for a file whose
\* index status is not READY.
C11_Monotonic ==
    [][ \A f \in Files :
           /\ StaysReady(f)
           /\ Submits("upload", f) => fileStatus[f] # "READY"
           /\ Submits("run_index", f) => indexStatus[f] # "READY" ]_vars

C11_Witness ==
    /\ pc = "done"
    /\ uploaded = "True" /\ indexed = "True" /\ annotated = "False"
    /\ Mutating(calls) # <<>>
    /\ NCalls(calls, "upload", vcf) = 0
    /\ NCalls(calls, "run_index", vcf) = 0
    /\ fileStatus[vcf] = "READY" /\ indexStatus[vcf] = "READY"
    /\ annotationStatus[vcf] = "READY"

\* C12: once the search for a file has returned more than one record, the
\* process has ended with exit status 1 and has made no call after the
\* search: no upload, index, annotation or secondary index call.
C12_AmbiguousMatchStops ==
    (calls # <<>> /\ numResults[Advanced] > 1) =>
        /\ pc = "exit"
        /\ exitCode = "1"
        /\ calls = <<Call("search", Advanced)>>

C12_Witness ==
    /\ pc = "exit"
    /\ calls = <<Call("search", vcf)>>
    /\ numResults[vcf] > 1

\* C13: the probe reports index, annotation or secondary index READY only
\* when it reports upload READY: a record whose own status is not READY is
\* reported with the three dependent stages not READY, whatever their
\* status names.
C13_DependentStagesCollapse ==
    (Truthy(indexed) \/ Truthy(annotated) \/ Truthy(sample_index))
        => Truthy(uploaded)

\* C14: when the search returns no record the probe returns uploaded
\* False and indexed, annotated, sample_index None (no stage READY), no
\* path and no sample identifiers, and the script goes on to the upload.
C14_ZeroMatches ==
    (pc = "upload" /\ numResults[vcf] = 0) =>
        /\ uploaded = "False"
        /\ indexed = "None" /\ annotated = "None" /\ sample_index = "None"
        /\ existing_file_path = "None" /\ sample_ids = "None"
        /\ exitCode = "running"

C14_Witness ==
    /\ pc = "upload"
    /\ numResults[vcf] = 0
    /\ calls = <<Call("search", vcf)>>
    /\ ~Truthy(uploaded) /\ ~Truthy(indexed)
    /\ ~Truthy(annotated) /\ ~Truthy(sample_index)

\* C15: when the search returns one record, the probe reports each of the
\* four stages True exactly when the stage's status name is the literal
\* READY, and False for any other name.
C15_ReadyIffLiteral ==
    (pc = "upload" /\ numResults[vcf] = 1) =>
        /\ uploaded = PyBool(fileStatus[vcf] = "READY")
        /\ indexed = PyBool(indexStatus[vcf] = "READY")
        /\ annotated = PyBool(annotationStatus[vcf] = "READY")
        /\ sample_index = PyBool(secondaryStatus[vcf] = "READY")

C15_Witness ==
    /\ pc = "upload"
    /\ numResults[vcf] = 1
    /\ fileStatus[vcf] = "PENDING" /\ uploaded = "False"
    /\ indexStatus[vcf] = "READY" /\ indexed = "True"
    /\ annotationStatus[vcf] = "ERROR" /\ annotated = "False"
    /\ secondaryStatus[vcf] = "RUNNING" /\ sample_index = "False"

\* upload was called on the file last probed and the study holds no READY
\* record of it
UploadFailed ==
    /\ calls # <<>>
    /\ NCalls(calls, "upload", Advanced) >= 1
    /\ ~(numResults[Advanced] = 1 /\ fileStatus[Advanced] = "READY")

\* C16: upload is called at most once on a file after its probe, and after
\* an upload that failed the process has ended with exit status 1 without
\* another call: no attribute update, no index, variant stats, annotation
\* or secondary index job.
C16_UploadFailureStops ==
    /\ calls # <<>> => NCalls(calls, "upload", Advanced) <= 1
    /\ UploadFailed =>
          /\ pc = "exit"
          /\ exitCode = "1"
          /\ calls = <<Call("search", Advanced), Call("upload", Advanced)>>

C16_Witness ==
    /\ UploadFailed
    /\ pc = "exit"
    /\ Mutating(calls) = <<"upload">>

\* the annotation job last waited for ended in ERROR
AnnotationEndedError ==
    LET sts == StatusesOf(job_info, "annotation", NoFile)
    IN sts # <<>> /\ sts[Len(sts)] = "ERROR"

\* C17: after an annotation job that ended in ERROR the run submits no
\* secondary index job and does not end with exit status 0.
C17_AnnotationErrorFails ==
    AnnotationEndedError =>
        /\ NCalls(calls, "secondary_annotation", NoFile) = 0
        /\ exitCode # "0"

\* index_file returned without a DONE for a file of the run, or a job
\* waited for since the last probe ended in ERROR
WritePathFailed ==
    \/ \E f \in Range(vcf_data) : index_result[f] = "None"
    \/ \E j \in DOMAIN job_info : job_info[j].st = "ERROR"

\* C18: a run in which index_file used its three attempts without a DONE,
\* or in which a stage job ended in ERROR, does not end with the exit
\* status 0 of a run whose stages all succeeded.
C18_FailureSurfaced ==
    (pc = "done" /\ WritePathFailed) => exitCode # "0"

\* the step is one of check_file_status in which files.search raises
SearchRaises ==
    /\ pc = "check"
    /\ numResults[vcf] <= 1
    /\ pc' # "upload"

\* C19: when files.search raises, the probe has called search once, the
\* process ends with exit status 1, and the process that has ended makes no
\* step: no second search and no mutating call.
C19_TransportErrorFatal ==
    [][ /\ pc # "exit"
        /\ SearchRaises =>
              /\ pc' = "exit"
              /\ exitCode' = "1"
              /\ calls' = <<Call("search", vcf)>> ]_vars

C19_Witness ==
    /\ pc = "exit"
    /\ exitCode = "1"
    /\ numResults[vcf] <= 1
    /\ calls = <<Call("search", vcf)>>

\* the process ended in the probe of the current file
ReadPathError ==
    /\ pc = "exit"
    /\ calls = <<Call("search", vcf)>>

\* C20: a read-path error on a file leaves no other file of the run
\* without its probe: the files after it in the list are still probed.
C20_OtherFilesStillProcessed ==
    ReadPathError => k = Len(vcf_data)

\* C21: a stage executor has returned to its caller only when the job it
\* submitted has a terminal status, DONE or ERROR; here the executor of
\* the secondary sample index.
C21_BlockingWait ==
    pc = "secondary_sample_index_returned" => sampleJob \in TerminalNames

\* the attribute update of the file last probed raised
AttributesFailed ==
    \E n \in DOMAIN logged : logged[n] = AttributesFailedLine

\* C22: after an attribute update that failed, the failure is in the log,
\* the study still holds the uploaded record with status READY, and the
\* process has not ended at the update: it goes on to the index stage.
C22_AttributeFailureLogged ==
    AttributesFailed =>
        /\ numResults[Advanced] = 1
        /\ fileStatus[Advanced] = "READY"
        /\ pc # "update"
        /\ ~(pc = "exit" /\ calls[Len(calls)].op = "update")

C22_Witness ==
    /\ AttributesFailed
    /\ pc = "index_wait"
    /\ Mutating(calls) = <<"upload", "update", "run_index">>

\* C23: a stage is submitted only when the probe reported that stage not
\* READY: upload only with uploaded not true, the index job only with
\* indexed not true, the annotation job only with annotated not true and
\* the secondary index job only with sample_index not true.
C23_StageShortCircuit ==
    calls # <<>> =>
        /\ NCalls(calls, "upload", Advanced) > 0 => ~Truthy(uploaded)
        /\ NCalls(calls, "run_index", Advanced) > 0 => ~Truthy(indexed)
        /\ NCalls(calls, "annotation", NoFile) > 0 => ~Truthy(annotated)
        /\ NCalls(calls, "secondary_annotation", NoFile) > 0
              => ~Truthy(sample_index)

StatsLaunched == NCalls(calls, "variant_stats", NoFile) > 0

\* C24: the variant stats job is submitted once the loop of upload and
\* index is over for every file of the run, after every index job of the
\* run and with each of them waited for; and the coordinator goes past
\* variant_stats_index, and ends with its exit status 0, only with the
\* status of the stats job read back.
C24_StatsAfterIndexAndAwaited ==
    StatsLaunched =>
        /\ k = Len(vcf_data)
        /\ \A n, m \in DOMAIN calls :
              (calls[n].op = "variant_stats" /\ calls[m].op = "run_index")
                  => m < n
        /\ Len(StatusesOf(job_info, "run_index", Advanced))
              = NCalls(calls, "run_index", Advanced)
        /\ pc \notin {"stats_wait", "exit"} =>
              Len(StatusesOf(job_info, "variant_stats", NoFile)) = 1

C24_Witness ==
    /\ pc = "done"
    /\ exitCode = "0"
    /\ NCalls(calls, "run_index", Advanced) = 2
    /\ StatusesOf(job_info, "variant_stats", NoFile) = <<"DONE">>

\* C25: a run that ends without a failure has ended with a probe of the
\* file made after its last stage: the last call to the platform is the
\* search of that probe.
C25_FinalProbe ==
    pc = "done" => calls = <<Call("search", vcf)>>

\* C26: when the coordinator decides whether to run the index stage, and
\* whether to run the annotation, its last call to the platform is a
\* probe: the decision is taken from a probe made after the stage before.
C26_ReprobeBetweenStages ==
    pc \in {"index", "annot1", "annot2"} =>
        calls[Len(calls)].op = "search"

\* C27: every index job of one index_file call is submitted with the same
\* payload: the file, and the somatic and loadMultiFileData flags of the
\* run.
C27_SamePayload ==
    \A n \in DOMAIN submitted_data :
        /\ submitted_data[n] = submitted_data[1]
        /\ submitted_data[n] = [file |-> vcf, somatic |-> somatic,
                                loadMultiFileData |-> multi_file]

C27_Witness ==
    /\ Len(submitted_data) = 3
    /\ somatic /\ ~multi_file
    /\ StatusesOf(job_info, "run_index", vcf) = <<"ERROR", "ERROR">>

\* C28: an attribute update is called right after the upload call of the
\* same file, upload that succeeded, and before any index job of the
\* file; an upload that succeeded is followed by the update before the
\* index stage; after an upload that failed there is no update.
C28_UpdateAfterUpload ==
    calls # <<>> =>
        /\ \A n \in DOMAIN calls :
              calls[n].op = "update" =>
                  /\ n > 1
                  /\ calls[n - 1] = Call("upload", calls[n].file)
                  /\ ~UploadFailed
                  /\ \A m \in DOMAIN calls :
                        calls[m].op = "run_index" => n < m
        /\ ( /\ NCalls(calls, "upload", Advanced) = 1
             /\ pc \notin {"update", "exit"} )
           => NCalls(calls, "update", Advanced) = 1
        /\ UploadFailed => NCalls(calls, "update", Advanced) = 0

C28_Witness ==
    /\ pc = "index_wait"
    /\ ~AttributesFailed
    /\ calls = <<Call("search", vcf), Call("upload", vcf),
                 Call("update", vcf), Call("run_index", vcf)>>

\* the operations that submit a job
JobOps == {"run_index", "variant_stats", "annotation", "secondary_annotation"}

\* number of lines with the id of a job of operation op in the log
JobIdLines(op) == Len(SelectSeq(logged, LAMBDA e : e = JobIdLine(op)))

\* number of jobs of operation op submitted since the last probe
Submissions(op) == Len(SelectSeq(calls, LAMBDA e : e.op = op))

Waiting ==
    pc \in {"index_wait", "stats_wait", "annot1_wait", "annot2_wait",
            "sec1_wait", "sec2_wait"}

\* C29: the id of every job submitted is in the log, so it is while the
\* executor waits for the job: for each kind of job, index, variant
\* stats, annotation and secondary index, as many ids are logged as jobs
\* are submitted.
C29_JobIdLogged ==
    \A op \in JobOps : JobIdLines(op) = Submissions(op)

C29_Witness ==
    /\ pc = "sec2_wait"
    /\ \A op \in JobOps : JobIdLines(op) >= 1
    /\ JobIdLines("annotation") = 2

\* C30: index_file submits no index job after one that ended DONE, so
\* the number of jobs it submits is the position of the first DONE; it
\* returns True when a job ended DONE, and None, after three jobs,
\* when none did.
C30_StopsAtFirstDone ==
    calls # <<>> =>
    LET sts == StatusesOf(job_info, "run_index", vcf)
        n == NCalls(calls, "run_index", vcf)
    IN /\ \A j \in DOMAIN sts :
             sts[j] = "DONE" => (j = Len(sts) /\ n = j)
       /\ index_result[vcf] = "True" =>
             (n \in 1..3 /\ Len(sts) = n /\ sts[n] = "DONE")
       /\ index_result[vcf] = "None" =>
             (n = 3 /\ Len(sts) = 3 /\ \A j \in 1..3 : sts[j] # "DONE")
       /\ (pc = "stats" /\ n > 0) => index_result[vcf] \in {"True", "None"}

C30_Witness ==
    /\ pc = "stats"
    /\ index_result[vcf] = "True"
    /\ StatusesOf(job_info, "run_index", vcf) = <<"ERROR", "DONE">>
    /\ NCalls(calls, "run_index", vcf) = 2

\* C31: every index job whose reported status is not DONE, whether ERROR,
\* ABORTED or a status that is not final, uses up one attempt of
\* index_file, and while attempts remain the next thing index_file does is
\* to submit the index job again.
C31_RetryOnAnyNonDone ==
    calls # <<>> =>
    LET sts == StatusesOf(job_info, "run_index", vcf)
        n == NCalls(calls, "run_index", vcf)
    IN \A m \in DOMAIN sts :
          sts[m] # "DONE" =>
             /\ m < retry => (n > m \/ (pc = "run_index" /\ n = m))
             /\ (m = Len(sts) /\ pc = "run_index") => i = m

C31_Witness ==
    /\ pc = "index_wait"
    /\ StatusesOf(job_info, "run_index", vcf) = <<"ABORTED", "RUNNING">>
    /\ NCalls(calls, "run_index", vcf) = 3
    /\ i = 2

\* an index job of the file was submitted and the wait for it ended without
\* a status: the wait raised
IndexWaitRaised ==
    /\ calls # <<>>
    /\ pc # "index_wait"
    /\ NCalls(calls, "run_index", vcf)
          > Len(StatusesOf(job_info, "run_index", vcf))

\* C32: when the wait for an index job raises, the process ends there, at
\* whatever attempt: the job whose wait raised is the last call the process
\* makes, index_file returns nothing and no attempt that remained is used.
C32_RaiseEndsProcess ==
    IndexWaitRaised =>
        /\ pc = "exit"
        /\ exitCode \in {"1", "traceback"}
        /\ calls[Len(calls)] = Call("run_index", vcf)
        /\ i = Len(StatusesOf(job_info, "run_index", vcf))
        /\ index_result[vcf] \notin {"True", "None"}

C32_Witness ==
    /\ IndexWaitRaised
    /\ pc = "exit"
    /\ NCalls(calls, "run_index", vcf) = 2
    /\ i = 1
    /\ i < retry - 1

\* the statements after the loop over the files: variant stats, annotation
\* and secondary annotation index
PhasePcs == {"stats", "stats_wait", "annot1", "annot1_wait", "annot2",
             "annot2_wait", "sec1", "sec1_wait", "sec2", "sec2_wait",
             "finish"}

\* C33: the variant stats, annotation and secondary index jobs of a run are
\* submitted only once the loop has reached the last file of the batch and
\* is past its index stage, and no search, upload, attribute update or
\* index job follows any of them.
C33_PhaseAfterAllFiles ==
    /\ (pc \in PhasePcs \/ \E n \in DOMAIN calls :
                              calls[n].op \in LaterStageOps)
          => k = Len(vcf_data)
    /\ \A n, m \in DOMAIN calls :
          (n < m /\ calls[n].op \in LaterStageOps)
             => calls[m].op \in LaterStageOps

C33_Witness ==
    /\ Len(vcf_data) = 2
    /\ pc = "annot1_wait"
    /\ index_result[vcf_data[1]] = "True"
    /\ index_result[vcf_data[2]] = "None"
    /\ NCalls(calls, "upload", vcf_data[2]) = 1
    /\ NCalls(calls, "run_index", vcf_data[2]) = retry
    /\ NCalls(calls, "annotation", NoFile) = 1

\* C34: in a run over several files the annotation jobs depend on the last
\* file alone: when the loop is over, annotated is true exactly when the
\* last file's annotation status is READY, whatever the earlier files'
\* statuses, and an annotation job is submitted exactly when it is not
\* true.
C34_AnnotationFollowsLastFile ==
    /\ pc \in {"stats", "stats_wait", "annot1"} =>
          /\ k = Len(vcf_data)
          /\ Truthy(annotated) <=> annotationStatus[vcf] = "READY"
    /\ (calls # <<>> /\ NCalls(calls, "annotation", NoFile) > 0)
          => ~Truthy(annotated)
    /\ pc \in {"sec1", "sec1_wait", "sec2", "sec2_wait", "finish", "done"}
          => (NCalls(calls, "annotation", NoFile) > 0
                 <=> ~Truthy(annotated))

C34_Witness ==
    /\ Len(vcf_data) = 2
    /\ pc = "done"
    /\ annotated = "True"
    /\ NCalls(calls, "annotation", NoFile) = 0
    /\ fileStatus[vcf_data[1]] = "READY"
    /\ indexStatus[vcf_data[1]] = "READY"
    /\ annotationStatus[vcf_data[1]] # "READY"

\* the status read back for the variant stats job is not DONE
StatsNotDone ==
    /\ calls # <<>>
    /\ StatusesOf(job_info, "variant_stats", NoFile) # <<>>
    /\ StatusesOf(job_info, "variant_stats", NoFile)[1] # "DONE"

\* C35: a variant stats job that ends with a status other than DONE does
\* not end the run: the coordinator goes on to the annotation test and the
\* secondary annotation index, a process that ends early after it ends in
\* one of those later stages, and a run that reaches its end has submitted
\* both secondary index jobs.
C35_StatsFailureNotFatal ==
    StatsNotDone =>
        /\ pc \in (PhasePcs \cup {"done", "exit"}) \ {"stats", "stats_wait"}
        /\ pc = "exit" =>
              calls[Len(calls)].op \in {"annotation", "secondary_annotation"}
        /\ pc \in {"finish", "done"} =>
              /\ NCalls(calls, "secondary_annotation", NoFile) = 2
              /\ ~Truthy(annotated) =>
                    NCalls(calls, "annotation", NoFile) = 2

C35_Witness ==
    /\ StatsNotDone
    /\ pc = "done"
    /\ exitCode = "0"
    /\ NCalls(calls, "annotation", NoFile) = 2
    /\ NCalls(calls, "secondary_annotation", NoFile) = 2

\* C36: the probe makes one call, the search, and changes nothing on the
\* platform; and when its attribute check logs a warning, for a stored
\* attribute that differs or is missing, the probe still returns, with the
\* statuses the record's four status names give, and the run goes on.
C36_ProbeReadOnly ==
    [][pc = "check" =>
          /\ UNCHANGED platform
          /\ calls' = <<Call("search", vcf)>>
          /\ logged' # <<>> =>
                /\ pc' = "upload"
                /\ exitCode' = exitCode
                /\ uploaded' = "True"
                /\ indexed' = PyBool(indexStatus[vcf] = "READY")
                /\ annotated' = PyBool(annotationStatus[vcf] = "READY")
                /\ sample_index' = PyBool(secondaryStatus[vcf] = "READY")]_vars

C36_Witness ==
    /\ pc = "index_wait"
    /\ attributes = "mismatch"
    /\ logged[1] = AttributeWarningLine("mismatch")
    /\ uploaded = "True"
    /\ calls = <<Call("search", vcf), Call("run_index", vcf)>>

\* The coordinator is one sequential process: a statement it has reached is
\* executed, and a wait on a submitted job returns or raises.
SpecTermination == Spec /\ WF_vars(Next)

\* the calls made for the file at hand and for the study since its probe
\* stay within the fixed numbers of the code
SubmissionsBounded ==
    calls # <<>> =>
        /\ NCalls(calls, "upload", vcf) <= 1
        /\ NCalls(calls, "run_index", vcf) <= retry
        /\ NCalls(calls, "variant_stats", NoFile) <= 1
        /\ NCalls(calls, "annotation", NoFile) <= 2
        /\ NCalls(calls, "secondary_annotation", NoFile) <= 2
        /\ Len(calls) <= 1 + 1 + 1 + retry + 1 + 2 + 2

\* C37: with every wait on a submitted job returning, every run of the
\* coordinator ends, after at most one upload and three index jobs for
\* each file and at most one variant stats job, two annotation jobs and
\* two secondary index jobs.
C37_Terminates ==
    /\ []SubmissionsBounded
    /\ <>(pc \in {"done", "exit"})

C37_Witness ==
    /\ pc = "done"
    /\ k = 2
    /\ NCalls(calls, "upload", vcf) = 1
    /\ NCalls(calls, "run_index", vcf) = retry
    /\ NCalls(calls, "annotation", NoFile) = 2
    /\ NCalls(calls, "secondary_annotation", NoFile) = 2
    /\ Len(calls) = 1 + 1 + 1 + retry + 1 + 2 + 2

\* ------------------------------------------------------------------
\* The single-file script, resources/usr/bin/opencga_upload_and_index.py.
\* It has its own check_file_status, upload_file, index_file and
\* annotate_file; it reads the statuses of the same record, and every
\* early end of it is sys.exit(0).
\* ------------------------------------------------------------------

\* lines 238 and 240: the one line the script logs about the whole run
SuccessLine == [msg |-> "successfully uploaded, indexed and annotated",
                op |-> "run"]
SomethingWrongLine == [msg |-> "Something went wrong", op |-> "run"]

single_check_file_status_independent(n, fs, is, as) ==
    [uploaded |-> PyBool(n = 1 /\ fs = "READY"),
     indexed |-> PyBool(n = 1 /\ is = "READY"),
     annotated |-> PyBool(n = 1 /\ as = "READY")]

\* lines 82-123 and 133: what the probe returns for n <= 1 records: the
\* three start False; the index status is read only under a file status
\* READY, the annotation status only under an index status READY
single_check_file_status(n, fs, is, as) ==
    LET file_ready == n = 1 /\ fs = "READY"
        index_ready == file_ready /\ is = "READY"
        annotation_ready == index_ready /\ as = "READY"
    IN [uploaded |-> PyBool(file_ready),
        indexed |-> PyBool(index_ready),
        annotated |-> PyBool(annotation_ready)]

\* what no statement of the single-file script touches
SingleFrame ==
    UNCHANGED <<args, sampleJob, data_obj, submitted_data, run, vcf_data,
                sample_index, existing_file_path, sample_ids, indexLocals,
                index_result, annotJobs, history, secondaryStatus,
                pendingAnnotation>>

\* lines 193-219: the client is found and both logins work, or sys.exit(0)
SingleBegin ==
    /\ pc = "start"
    /\ \/ /\ Exit("0")
          /\ k' = k
       \/ /\ k' = 1
          /\ pc' = "single_check"
          /\ UNCHANGED exitCode
    /\ UNCHANGED <<numResults, fileStatus, indexStatus, annotationStatus,
                   uploaded, indexed, annotated, calls, job_info, logged>>
    /\ SingleFrame

\* lines 222 and 236: a call of check_file_status (lines 71-133); the
\* search is appended to the calls of the run
SingleCheckFileStatus(here, next) ==
    /\ pc = here
    /\ calls' = Append(calls, Call("search", vcf))
    /\ \/ \* the search raises: the handler calls logs.error without a
          \* message, which is a TypeError of its own
          /\ Exit("traceback")
          /\ UNCHANGED <<uploaded, indexed, annotated>>
       \/ \* more than one record: uploaded = True, sys.exit(0)
          /\ numResults[vcf] > 1
          /\ Exit("0")
          /\ uploaded' = "True"
          /\ indexed' = "False"
          /\ annotated' = "False"
       \/ /\ numResults[vcf] <= 1
          /\ LET r == single_check_file_status(numResults[vcf],
                            fileStatus[vcf], indexStatus[vcf],
                            annotationStatus[vcf])
             IN /\ uploaded' = r.uploaded
                /\ indexed' = r.indexed
                /\ annotated' = r.annotated
          /\ pc' = next
          /\ UNCHANGED exitCode
    /\ UNCHANGED <<numResults, fileStatus, indexStatus, annotationStatus,
                   k, job_info, logged>>
    /\ SingleFrame

\* lines 225-227 and upload_file (136-151)
SingleUploadFile ==
    /\ pc = "single_upload"
    /\ \/ /\ Truthy(uploaded)
          /\ pc' = "single_index"
          /\ UNCHANGED <<numResults, fileStatus, calls, exitCode>>
       \/ /\ ~Truthy(uploaded)
          /\ calls' = Append(calls, Call("upload", vcf))
          /\ \/ \* stderr is not empty: sys.exit(0)
                /\ Exit("0")
                /\ UNCHANGED <<numResults, fileStatus>>
             \/ /\ pc' = "single_index"
                /\ numResults' = [numResults EXCEPT ![vcf] = 1]
                /\ fileStatus' = [fileStatus EXCEPT ![vcf] = "READY"]
                /\ UNCHANGED exitCode
    /\ UNCHANGED <<indexStatus, annotationStatus, k, uploaded, indexed,
                   annotated, job_info, logged>>
    /\ SingleFrame

\* lines 228-230 and index_file (171-184): one job, one wait, and no look
\* at the status the job ended with
SingleIndexFile ==
    /\ pc = "single_index"
    /\ \/ /\ Truthy(indexed)
          /\ pc' = "single_annotate"
          /\ UNCHANGED <<indexStatus, calls, job_info, logged, exitCode>>
       \/ /\ ~Truthy(indexed)
          /\ calls' = Append(calls, Call("run_index", vcf))
          /\ logged' = Append(logged, JobIdLine("run_index"))
          /\ \/ \* ValueError of the wait: sys.exit(0)
                /\ Exit("0")
                /\ UNCHANGED <<indexStatus, job_info>>
             \/ \E st \in job_status_names :
                /\ job_info' = Append(job_info,
                                      JobInfo("run_index", vcf, st))
                /\ indexStatus' = IF st = "DONE"
                                  THEN [indexStatus EXCEPT ![vcf] = "READY"]
                                  ELSE indexStatus
                /\ pc' = "single_annotate"
                /\ UNCHANGED exitCode
    /\ UNCHANGED <<numResults, fileStatus, annotationStatus, k, uploaded,
                   indexed, annotated>>
    /\ SingleFrame

\* lines 231-233 and annotate_file (154-167)
SingleAnnotateFile ==
    /\ pc = "single_annotate"
    /\ \/ /\ Truthy(annotated)
          /\ pc' = "single_final"
          /\ UNCHANGED <<annotationStatus, calls, job_info, logged,
                         exitCode>>
       \/ /\ ~Truthy(annotated)
          /\ calls' = Append(calls, Call("annotation", NoFile))
          /\ logged' = Append(logged, JobIdLine("annotation"))
          /\ \/ \* ValueError of the wait: sys.exit(0)
                /\ Exit("0")
                /\ UNCHANGED <<annotationStatus, job_info>>
             \/ \E st \in job_status_names :
                /\ job_info' = Append(job_info,
                                      JobInfo("annotation", NoFile, st))
                /\ annotationStatus' =
                      IF st = "DONE"
                      THEN [f \in Files |->
                               IF indexStatus[f] = "READY"
                               THEN "READY" ELSE annotationStatus[f]]
                      ELSE annotationStatus
                /\ pc' = "single_final"
                /\ UNCHANGED exitCode
    /\ UNCHANGED <<numResults, fileStatus, indexStatus, k, uploaded,
                   indexed, annotated>>
    /\ SingleFrame

\* lines 237-242: the outcome of the final probe is logged and the script
\* ends
SingleReport ==
    /\ pc = "single_report"
    /\ logged' = Append(logged,
                        IF Truthy(uploaded) /\ Truthy(indexed)
                              /\ Truthy(annotated)
                        THEN SuccessLine ELSE SomethingWrongLine)
    /\ pc' = "done"
    /\ exitCode' = "0"
    /\ UNCHANGED <<numResults, fileStatus, indexStatus, annotationStatus,
                   k, uploaded, indexed, annotated, calls, job_info>>
    /\ SingleFrame

InitSingle ==
    /\ vcf_data = Batch(1)
    /\ InitPlatform({1})
    /\ pendingAnnotation = FALSE
    /\ InitArgs
    /\ InitProcess

NextSingle ==
    \/ SingleBegin
    \/ SingleCheckFileStatus("single_check", "single_upload")
    \/ SingleUploadFile
    \/ SingleIndexFile
    \/ SingleAnnotateFile
    \/ SingleCheckFileStatus("single_final", "single_report")
    \/ SingleReport

SpecSingle == InitSingle /\ [][NextSingle]_vars

\* C38: in the single-file script every probe result has annotated only
\* with indexed and indexed only with uploaded, each of them true only
\* under the READY statuses before it; and the run logs its success line
\* exactly when it reaches its end with the final probe returning the
\* three true, and the other line when it reaches its end otherwise.
C38_NestedProbeAndFinalReport ==
    /\ uploaded # "Unbound" =>
          /\ Truthy(annotated) => Truthy(indexed)
          /\ Truthy(indexed) => Truthy(uploaded)
    /\ pc \in {"single_upload", "single_report"} =>
          /\ Truthy(uploaded) <=>
                (numResults[vcf] = 1 /\ fileStatus[vcf] = "READY")
          /\ Truthy(indexed) <=>
                (Truthy(uploaded) /\ indexStatus[vcf] = "READY")
          /\ Truthy(annotated) <=>
                (Truthy(indexed) /\ annotationStatus[vcf] = "READY")
    /\ (\E n \in DOMAIN logged : logged[n] = SuccessLine) <=>
          (pc = "done" /\ Truthy(uploaded) /\ Truthy(indexed)
              /\ Truthy(annotated))
    /\ (\E n \in DOMAIN logged : logged[n] = SomethingWrongLine) <=>
          (pc = "done" /\ ~(Truthy(uploaded) /\ Truthy(indexed)
                               /\ Truthy(annotated)))

C38_Witness ==
    /\ pc = "done"
    /\ logged[Len(logged)] = SuccessLine
    /\ calls = <<Call("search", vcf), Call("run_index", vcf),
                 Call("annotation", NoFile), Call("search", vcf)>>
    /\ job_info[1].st = "DONE"

====
